---------------------------- MODULE Spec2Model ----------------------------
(***************************************************************************)
(* Model of the AD9361 RFIC streaming datapath of LiteX-M2SDR              *)
(* (gateware/ad9361/core.py, gateware/ad9361/cmosphy.py).                  *)
(*                                                                         *)
(* Two free-running clock domains, "sys" and "rfic", are two actions       *)
(* (SysTick, RficTick) that interleave in any order.  Every action is one  *)
(* clock edge of its domain: all the registers of that domain are updated  *)
(* from the values the combinatorial signals have before the edge.         *)
(*                                                                         *)
(* A 64-bit stream word is the sequence of its four 16-bit fields,         *)
(* <<data[0:16], data[16:32], data[32:48], data[48:64]>>.                  *)
(***************************************************************************)
EXTENDS Integers, Sequences, FiniteSets, TLC

\* ------------------------------------------------------------------------
\* Bounds of the model
\* ------------------------------------------------------------------------

\* Depth of the two asynchronous FIFOs (the repository leaves the library's
\* default; the datapath's properties do not depend on the value).
CdcDepth == 3

\* rfic clock edges of a run whose RX samples are recorded.
MaxRficTicks == 6

\* Samples handed to the PHY in a run that switches self-test while the host
\* sends.
MaxDropHanded == 3

\* Bus cycles of pad data in a run that compares the source with the pads.
MaxPadHistory == 4

\* Words the host sends in a run whose TX words are recorded.
MaxTxWords == 5

\* Length of the modelled PRBS sequence before it repeats.
PrbsPeriod == 3

\* PRBS values handed to the PHY in a run whose TX samples are recorded.
MaxPrbsHanded == 4

\* ------------------------------------------------------------------------
\* Program constants
\* ------------------------------------------------------------------------

\* Width of the four fields of the PHY's sample layout.
PhyWidth == 12

\* Width of a field of the 64-bit stream word.
FieldWidth == 16

Pow2(n) == 2 ^ n

\* phy_layout(): the fields of a PHY sample.
phy_layout == <<"ia", "qa", "ib", "qb">>

\* data[hi-1] of an unsigned value: its most significant bit.
Msb(data, width) == (data \div Pow2(width - 1)) % 2

\* _sign_extend(data, nbits): the data followed by nbits - len(data)
\* copies of its most significant bit.
sign_extend(data, nbits) ==
    data + Msb(data, PhyWidth) * (Pow2(nbits) - Pow2(PhyWidth))

\* A 16-bit value clipped to the 12-bit range instead of cut (not what the
\* code does).
Truncate_Saturating(data) ==
    IF data < Pow2(PhyWidth - 1) \/ data >= Pow2(FieldWidth) - Pow2(PhyWidth - 1)
    THEN data % Pow2(PhyWidth)
    ELSE IF data < Pow2(FieldWidth - 1) THEN Pow2(PhyWidth - 1) - 1
         ELSE Pow2(PhyWidth - 1)

\* Assignment of a 16-bit slice to a 12-bit signal: the low bits are kept.
Truncate(data) == data % Pow2(PhyWidth)

ZeroWord == <<0, 0, 0, 0>>

\* ------------------------------------------------------------------------
\* Inputs the environment may drive
\* ------------------------------------------------------------------------

\* <<rx_data_i, rx_data_q>>: what the twelve IDDRs output in one rfic cycle.
PadPairs == { <<100, 3896>>, <<2047, 2048>> }
PadIdle  == { <<0, 0>> }
\* Data with the framing line low or high: <<rx_data_i, rx_data_q, rx_frame>>.
PadFramed == { <<100, 3896, f>> : f \in 0..1 }
\* Two different samples, one of them with the framing line low or high.
PadVaried == { <<100, 3896, 0>>, <<2047, 2048, 0>>, <<2047, 2048, 1>> }
\* PRBS data on the I pads, in any order.
PadPrbs  == { <<2644, 0>>, <<4009, 0>>, <<1278, 0>> }

\* Words the host may offer at AD9361RFIC.sink: a script whose words are
\* offered in turn (three different words, one word over and over, a few
\* words that all differ and then nothing, or nothing); HostWords gives the
\* n-th word the host offers, none where the script has << >>.
HostScript == << <<100, 65336, 7, 8>>, <<2047, 63488, 4660, 43981>>, <<1, 2, 3, 4>> >>
HostFew    == [n \in 1..(MaxTxWords + 1) |->
                  IF n <= 3 THEN <<n, n + 16, n + 32, n + 48>> ELSE << >>]
HostPair   == [n \in 1..(MaxTxWords + 1) |->
                  IF n <= 2 THEN <<n, n + 16, n + 32, n + 48>> ELSE << >>]
HostOne    == << HostScript[1] >>
HostNone   == << >>
HostWords(script, n) ==
    IF script = << >> THEN {}
    ELSE { script[((n - 1) % Len(script)) + 1] } \ { << >> }

VARIABLES
    phy_mode,        \* constructor argument of AD9361RFIC: "lvds" or "cmos"
    control,         \* AD9361CMOSPHY.control CSR: [mode, loopback]
    mode,            \* MultiReg(control.fields.mode): <<stage 1, stage 2>>,
                     \* in the MultiReg's default domain, sys
    loopback,        \* MultiReg(control.fields.loopback): <<stage 1, stage 2>>
    prbs_tx,         \* prbs_tx CSR: the enable field
    prbs_generator,  \* position of the PRBS generator in its sequence
    sink,            \* AD9361RFIC.sink as the host drives it: [valid, data]
    tx_buffer,       \* stream.Buffer: [valid, data]
    tx_cdc,          \* asynchronous FIFO sys -> rfic
    tx_mem,          \* the words last read from tx_cdc's memory, oldest first
    tx_dout,         \* tx_cdc's registered read port (tx_cdc.source.data)
    rx_frame,        \* framing: [q, d, rising_d] = rx_frame (IDDR output),
                     \* rx_frame_d, rx_frame_rising_d
    rx_data,         \* rx_data_ia/qa/ib/qb registers: [ia, qa, ib, qb, t]
    phy_source,      \* AD9361CMOSPHY.source registers: [valid, ia, qa, ib, qb, t]
    rx_cdc,          \* asynchronous FIFO rfic -> sys
    rx_buffer,       \* stream.Buffer: [valid, data, t]
    bitmode,         \* bitmode CSR: the mode field (0: 16-bit, 1: 8-bit)
    tx_bitmode,      \* AD9361TXBitMode, 8-bit converter: [demux, strobe_all, data]
    rx_bitmode,      \* AD9361RXBitMode, 8-bit converter: [mux]
    enable_datapath, \* AD9361RFIC.enable_datapath, driven by the SoC
    prbs_checker,    \* the two AD9361PRBSChecker (lanes IA, IB):
                     \* each [expect, run, synced]
    rst,             \* [sys, rfic]: the domain's reset is asserted
    client,          \* spi_eth_test.py: [pc, reg, polls, reg_val, log], log the
                     \* bus accesses made so far
    spi,             \* the registers the script accesses: the SPI master's
                     \* [mosi, length, busy, miso] and the AD9361 config
    \* history (no signal of the design reads these)
    at_reset,        \* [n, accepted, presented, inflight]: resets so far, the
                     \* words offered and the rfic edges seen before the last
                     \* one, whether both CDCs held words when it was asserted
    rfic_n,          \* rfic edges seen, counted in recorded runs
    rx_presented,    \* phy.source in the rfic cycles where its valid was high
    rx_lost,         \* tags of the samples presented while rx_cdc was full
    rx_delivered,    \* words transferred at AD9361RFIC.source: [data, t]
    frame_seen,      \* [gap, late]: rfic cycles since the last rising edge of
                     \* rx_frame (0: none yet), whether that edge came late
    agc_enabled,     \* tags of the words at rx_cdc.source in the sys cycles
                     \* where the AGC counters' ce was high
    tx_accepted,     \* words transferred at AD9361RFIC.sink
    tx_popped,       \* words transferred at tx_cdc.source
    tx_handed,       \* samples transferred at phy.sink: [ia, qa, ib, qb, drv]
    tx_seen,         \* [sink_stall, phy_stall]: the stalls that have happened;
                     \* in_test: the words of tx_popped popped with self-test on
    rx_pads,
                     \* the IDDR outputs <<rx_data_i, rx_data_q>> at the recorded rfic
                     \* edges, in order
    prbs_run,
                     \* [start, fresh]: the length of tx_handed when self-test was last
                     \* enabled, whether the generator has been reset at an rfic edge
                     \* since self-test was last disabled
    dma,
                     \* pcie_dma0: [reader, writer], the enable of each direction
    header,
                     \* TXRXHeader: [tx, rx], each the header words of the current
                     \* segment handled so far
    hdr_seen,
                     \* [tx, rx], each [words, partial]: the words taken since the
                     \* direction was last enabled (counted up to HeaderWords + 1),
                     \* whether it was last disabled in the middle of a header
    mark             \* one accepted word followed to phy.sink: [pos, done],
                     \* pos its place in the TX pipeline (0: none followed),
                     \* done whether the last one followed has left tx_cdc

vars == << phy_mode, hdr_seen, header, dma, prbs_run, rx_pads, control, mode, loopback, prbs_tx, prbs_generator,
           sink, tx_buffer, tx_cdc, tx_mem, tx_dout,
           rx_data, phy_source, rx_cdc, rx_buffer,
           bitmode, tx_bitmode, rx_bitmode, enable_datapath, prbs_checker,
           rx_frame, frame_seen, rst, client, spi, at_reset,
           rfic_n, rx_presented, rx_lost, rx_delivered, agc_enabled,
           tx_accepted, tx_popped, tx_handed, tx_seen, mark >>

\* ------------------------------------------------------------------------
\* stream.ClockDomainCrossing: an asynchronous FIFO.  q holds the words
\* written and not yet read.  The read side sees the write pointer through
\* a two-stage synchronizer: pr1/pr2 count the writes stage 1/stage 2 has
\* not seen yet.  The write side sees the read pointer the same way:
\* cw1/cw2 count the reads its stage 1/stage 2 has not seen yet.
\* ------------------------------------------------------------------------

FifoInit == [q |-> <<>>, pr1 |-> 0, pr2 |-> 0, cw1 |-> 0, cw2 |-> 0]

\* writable: the write pointer is less than depth ahead of the synchronized
\* read pointer.
FifoWritable(f) == Len(f.q) + f.cw2 < CdcDepth

\* readable: the read pointer differs from the synchronized write pointer.
FifoReadable(f) == Len(f.q) - f.pr2 > 0

\* One edge of the write clock.
FifoWrClk(f, we, din) ==
    [q   |-> IF we THEN Append(f.q, din) ELSE f.q,
     pr1 |-> IF we THEN f.pr1 + 1 ELSE f.pr1,
     pr2 |-> IF we THEN f.pr2 + 1 ELSE f.pr2,
     cw1 |-> 0,
     cw2 |-> f.cw1]

\* One edge of the read clock.
FifoRdClk(f, re) ==
    [q   |-> IF re THEN Tail(f.q) ELSE f.q,
     pr1 |-> 0,
     pr2 |-> f.pr1,
     cw1 |-> IF re THEN f.cw1 + 1 ELSE f.cw1,
     cw2 |-> IF re THEN f.cw2 + 1 ELSE f.cw2]

\* The word at the memory address the read port is given: the oldest unread
\* word, or with none the word that address held CdcDepth writes ago.
FifoPeek(f, mem) == IF Len(f.q) > 0 THEN f.q[1] ELSE mem[1]

\* A CDC whose reset is not shared: it keeps its words (not what the code
\* does).
CdcReset_None(f) == f

\* with_common_rst = True: both sides of the FIFO are reset together, by
\* the reset of either domain.
CdcReset(f) == FifoInit

\* stream.Buffer (a valid/payload register stage): sink.ready.
BufferSinkReady(b, source_ready) == (~b.valid) \/ source_ready


\* The payload a Buffer holds while its valid is low is not modelled: the
\* stage after it reads the payload only with valid high.
NoTx == [valid |-> FALSE, data |-> ZeroWord]
NoRx == [valid |-> FALSE, data |-> ZeroWord, t |-> 0]

\* AD9361TXBitMode / AD9361RXBitMode with mode = 0 (the reset value of the
\* bitmode CSR, 16-bit samples): sink is connected to source.
TXBitMode(data) == data
RXBitMode(data) == data

\* rx_bitmode.mode driven with the opposite of the CSR field (not what the
\* code does).
RxBitmodeMode_Inverted == 1 - bitmode

\* tx_bitmode.mode and rx_bitmode.mode: both driven combinatorially by the
\* mode field of the bitmode CSR.
TxBitmodeMode == bitmode
RxBitmodeMode == bitmode

\* 8-bit mode, pack: each field is cut to the top 8 bits of its 12 bits of
\* precision, and the eight values of two words fill one word (two values
\* in each 16-bit field, the first in the low byte).
Top8(v) == (v \div 16) % 256
Pack8(w1, w2) ==
    << Top8(w1[1]) + 256 * Top8(w1[2]), Top8(w1[3]) + 256 * Top8(w1[4]),
       Top8(w2[1]) + 256 * Top8(w2[2]), Top8(w2[3]) + 256 * Top8(w2[4]) >>

\* 8-bit mode, unpack: half k (0 or 1) of a packed word, each 8-bit value
\* sign-extended to 16 bits.
SignExtend8(b) == IF b >= 128 THEN b + 65280 ELSE b
Unpack8(w, k) ==
    << SignExtend8(w[2 * k + 1] % 256), SignExtend8(w[2 * k + 1] \div 256),
       SignExtend8(w[2 * k + 2] % 256), SignExtend8(w[2 * k + 2] \div 256) >>

BitmodeIdle == [demux |-> 0, strobe_all |-> FALSE, data |-> <<ZeroWord, ZeroWord>>]

\* ------------------------------------------------------------------------
\* RX: PHY -> RX CDC -> RX BitMode -> RX Buffer -> Source
\* ------------------------------------------------------------------------

\* The framing line toggles at half the sample rate: a rising edge is
\* expected every FramePeriod rfic cycles.
FramePeriod == 2

\* What the rx_frame IDDR outputs in the cycle of a pad tuple (a tuple
\* without a third element leaves the framing line low).
PadFrame(pad) == IF Len(pad) >= 3 THEN pad[3] ELSE 0

\* rx_frame_rising = rx_frame & ~rx_frame_d
RxFrameRising == IF rx_frame.q = 1 /\ rx_frame.d = 0 THEN 1 ELSE 0

\* The framing registers after an rfic edge.
RxFrameNext(frame) ==
    [q |-> frame, d |-> rx_frame.q, rising_d |-> RxFrameRising]

\* The status the CMOS PHY derives from its framing registers: nothing
\* reads rx_frame_rising_d, and the module has no status register.
CmosPhySyncLost == FALSE

\* History of the framing line: a rising edge is late when the edge before
\* it is more than FramePeriod cycles back.
FrameSeenNext ==
    IF RxFrameRising = 1
    THEN [gap |-> 1, late |-> frame_seen.gap > FramePeriod]
    ELSE [gap  |-> IF frame_seen.gap = 0 \/ frame_seen.gap > FramePeriod
                   THEN frame_seen.gap ELSE frame_seen.gap + 1,
          late |-> frame_seen.late]

\* modes = {"2R2T": 0, "1R1T": 1}
Mode2R2T == 0
Mode1R1T == 1

\* Channel B carrying data in 2R2T mode (not what the code does).
RxDataNext_ChannelB(pad, n) ==
    [ia |-> pad[1], qa |-> pad[2],
     ib |-> IF mode[2] = Mode2R2T THEN pad[1] ELSE 0,
     qb |-> IF mode[2] = Mode2R2T THEN pad[2] ELSE 0, t |-> n]

\* Q registered from the bus cycle before the one I comes from (not what
\* the code does).
RxDataNext_LateQ(pad, n) ==
    [ia |-> pad[1],
     qa |-> IF rx_pads = << >> THEN 0 ELSE rx_pads[Len(rx_pads)][2],
     ib |-> 0, qb |-> 0, t |-> n]

\* rx_data_ia/qa/ib/qb after an rfic edge; pad = <<rx_data_i, rx_data_q>>.
\* t tags the sample with the edge that captured it.
RxDataNext(pad, n) ==
    [ia |-> pad[1], qa |-> pad[2], ib |-> 0, qb |-> 0, t |-> n]

\* phy.source.connect(rx_cdc.sink, keep={"valid", "ready"})
RxCdcSinkValid == phy_source.valid
RxCdcSinkReady == FifoWritable(rx_cdc)

\* The same PHY with valid following ready (not what the code does).
PhySourceNext_Gated ==
    [valid |-> RxCdcSinkReady, ia |-> rx_data.ia, qa |-> rx_data.qa,
     ib |-> rx_data.ib, qb |-> rx_data.qb, t |-> rx_data.t]

\* The same PHY with a source that waits for ready (not what the code does).
PhySourceNext_Stallable ==
    IF phy_source.valid /\ ~RxCdcSinkReady
    THEN phy_source
    ELSE [valid |-> TRUE, ia |-> rx_data.ia, qa |-> rx_data.qa,
          ib |-> rx_data.ib, qb |-> rx_data.qb, t |-> rx_data.t]

\* The RX word with its fields in another order (not what the code does).
RxWord_Swapped(src) ==
    << sign_extend(src.qa, FieldWidth), sign_extend(src.ia, FieldWidth),
       sign_extend(src.qb, FieldWidth), sign_extend(src.ib, FieldWidth) >>

\* The RX word without sign extension (not what the code does).
RxWord_ZeroExtended(src) == << src.ia, src.qa, src.ib, src.qb >>

\* rx_cdc.sink.data for a PHY sample: IA in data[0:16], QA in data[16:32],
\* IB in data[32:48], QB in data[48:64], each sign-extended.
RxWord(src) ==
    << sign_extend(src.ia, FieldWidth),
       sign_extend(src.qa, FieldWidth),
       sign_extend(src.ib, FieldWidth),
       sign_extend(src.qb, FieldWidth) >>

RxCdcSinkData == RxWord(phy_source)

RxCdcSourceValid == FifoReadable(rx_cdc)

\* rx_bitmode between rx_cdc and rx_buffer.  16-bit mode: sink connected
\* to source.  8-bit mode: a word is unpacked into two, half mux first;
\* rx_cdc is popped with the second.
RxBitmodeSourceValid == RxCdcSourceValid
RxBitmodeSourceData ==
    IF RxBitmodeMode = 0 THEN RXBitMode(rx_cdc.q[1].data)
    ELSE Unpack8(rx_cdc.q[1].data, rx_bitmode.mux)
RxCdcSourceReady(rx_ready) ==
    IF RxBitmodeMode = 0 THEN rx_ready ELSE rx_ready /\ rx_bitmode.mux = 1
RxBitmodeNext(rx_ready) ==
    IF RxBitmodeMode = 1 /\ RxCdcSourceValid /\ rx_ready
    THEN [mux |-> 1 - rx_bitmode.mux] ELSE rx_bitmode

\* The counters enabled whenever rx_cdc offers a word (not what the code
\* does).
AgcCe_ValidOnly(rx_ready) == RxCdcSourceValid

\* add_agc: ce = rx_cdc.source.valid & rx_cdc.source.ready, the same for
\* the four AGCSaturationCount.
AgcCe(rx_ready) == RxCdcSourceValid /\ RxCdcSourceReady(rx_ready)

\* ------------------------------------------------------------------------
\* TX: Sink -> TX Buffer -> TX BitMode -> TX CDC -> PHY
\* ------------------------------------------------------------------------

\* AD9361CMOSPHY never drives sink.ready (its TX part is under "if False").
CmosPhySinkReady == {FALSE}

\* The LVDS PHY serializes what it accepts: ready comes and goes.
LvdsPhySinkReady == BOOLEAN

PhySinkReady == IF phy_mode = "cmos" THEN CmosPhySinkReady ELSE LvdsPhySinkReady

\* AD9361RFIC.sink.ready: tx_buffer is free or hands its word to tx_cdc.
TxCdcSinkReady == FifoWritable(tx_cdc)

\* tx_bitmode between tx_buffer and tx_cdc.  16-bit mode: sink connected
\* to source.  8-bit mode: two words are packed into one; strobe_all says
\* the packed word is complete.
TxBitmodeSinkReady ==
    IF TxBitmodeMode = 0 THEN TxCdcSinkReady
    ELSE (~tx_bitmode.strobe_all) \/ TxCdcSinkReady
TxBitmodeSourceValid ==
    IF TxBitmodeMode = 0 THEN tx_buffer.valid ELSE tx_bitmode.strobe_all
TxBitmodeSourceData ==
    IF TxBitmodeMode = 0 THEN TXBitMode(tx_buffer.data)
    ELSE Pack8(tx_bitmode.data[1], tx_bitmode.data[2])
TxBitmodeNext ==
    IF TxBitmodeMode = 0 THEN tx_bitmode
    ELSE LET load == tx_buffer.valid /\ TxBitmodeSinkReady
         IN  [demux      |-> IF load THEN 1 - tx_bitmode.demux ELSE tx_bitmode.demux,
              strobe_all |-> IF load THEN tx_bitmode.demux = 1
                             ELSE IF TxCdcSinkReady THEN FALSE
                             ELSE tx_bitmode.strobe_all,
              data       |-> IF load
                             THEN [tx_bitmode.data EXCEPT
                                      ![tx_bitmode.demux + 1] = tx_buffer.data]
                             ELSE tx_bitmode.data]

SinkReady      == BufferSinkReady(tx_buffer, TxBitmodeSinkReady)

TxCdcSourceValid == FifoReadable(tx_cdc)
TxCdcSourceData  == tx_dout

\* tx_cdc.source.ready tied high or left unconnected (not what the code does).
TxCdcSourceReady_Always(phy_ready) == TRUE
TxCdcSourceReady_Never(phy_ready)  == FALSE
\* tx_cdc held back while self-test is enabled (not what the code does).
TxCdcSourceReady_HeldInTest(phy_ready) == phy_ready /\ ~prbs_tx

\* tx_cdc.source.connect(self.phy.sink, keep={"valid", "ready"})
TxCdcSourceReady(phy_ready) == phy_ready

\* The PHY fields taken from the top of each slice (not what the code does).
TxSample_High(data) ==
    [ia |-> data[1] \div Pow2(FieldWidth - PhyWidth),
     qa |-> data[2] \div Pow2(FieldWidth - PhyWidth),
     ib |-> data[3] \div Pow2(FieldWidth - PhyWidth),
     qb |-> data[4] \div Pow2(FieldWidth - PhyWidth)]

\* phy.sink.ia/qa/ib/qb = tx_cdc.source.data[0:16], [16:32], [32:48], [48:64]:
\* each 16-bit slice assigned to a 12-bit field.
TxSample(data) ==
    [ia |-> Truncate(data[1]), qa |-> Truncate(data[2]),
     ib |-> Truncate(data[3]), qb |-> Truncate(data[4])]

\* AD9361PRBSGenerator.o at each position of its sequence.
PrbsO(s) == (2644 + 1365 * s) % Pow2(PhyWidth)

\* reset = ~enable, ce = phy.sink.ready.
\* prbs_generator.reset = ~prbs_tx.fields.enable: the rfic-clocked generator
\* is given the CSR field itself.
PrbsGeneratorReset == ~prbs_tx

\* A generator that runs whatever phy.sink.ready (not what the code does).
PrbsGeneratorNext_FreeRunning(phy_ready) ==
    IF PrbsGeneratorReset THEN 0 ELSE (prbs_generator + 1) % PrbsPeriod

PrbsGeneratorNext(phy_ready) ==
    IF PrbsGeneratorReset THEN 0
    ELSE IF phy_ready THEN (prbs_generator + 1) % PrbsPeriod
    ELSE prbs_generator

\* Matches a checker wants in a row before it reports synchronized.
PrbsMinRun == 2

\* The value that follows v in the PRBS sequence (0 follows 0; a value
\* outside the sequence is taken as its start).
PrbsSucc(v) ==
    IF v = 0 THEN 0
    ELSE IF \E k \in 0..(PrbsPeriod - 1) : v = PrbsO(k)
         THEN PrbsO(((CHOOSE k \in 0..(PrbsPeriod - 1) : v = PrbsO(k)) + 1) % PrbsPeriod)
         ELSE PrbsO(0)

\* AD9361PRBSChecker: a shadow generator seeded from the input predicts the
\* next input; synced after PrbsMinRun matches in a row, lost at the first
\* mismatch.  ce = phy.source.valid.
PrbsCheckerIdle == [expect |-> 0, run |-> 0, synced |-> FALSE]
PrbsCheckerNext(c, i) ==
    IF ~phy_source.valid THEN c
    ELSE LET run == IF i = c.expect
                    THEN (IF c.run < PrbsMinRun THEN c.run + 1 ELSE c.run)
                    ELSE 0
         IN  [expect |-> PrbsSucc(i), run |-> run, synced |-> run = PrbsMinRun]

\* prbs_rx.synced driven by the last checker alone (not what the code does).
PrbsRxSynced_LastLane == prbs_checker[2].synced

\* prbs_rx.fields.synced: 1, then 0 for each checker that is not synced.
PrbsRxSynced ==
    LET s0 == TRUE
        s1 == IF ~prbs_checker[1].synced THEN FALSE ELSE s0
        s2 == IF ~prbs_checker[2].synced THEN FALSE ELSE s1
    IN  s2

\* phy.sink as the combinatorial statements of __init__ and add_prbs
\* drive it; drv names the signal behind each field.
PhySinkValid == IF prbs_tx THEN TRUE ELSE TxCdcSourceValid

PhySink ==
    [ia  |-> IF prbs_tx THEN PrbsO(prbs_generator) ELSE TxSample(TxCdcSourceData).ia,
     qa  |-> TxSample(TxCdcSourceData).qa,
     ib  |-> IF prbs_tx THEN PrbsO(prbs_generator) ELSE TxSample(TxCdcSourceData).ib,
     qb  |-> TxSample(TxCdcSourceData).qb,
     drv |-> [ia |-> IF prbs_tx THEN "prbs" ELSE "tx", qa |-> "tx",
              ib |-> IF prbs_tx THEN "prbs" ELSE "tx", qb |-> "tx"]]

\* The source with the loopback of the disabled part of the PHY (not what
\* the code does).
PhySourceNext_Loopback ==
    IF loopback[2] = 1
    THEN [valid |-> PhySinkValid, ia |-> PhySink.ia, qa |-> PhySink.qa,
          ib |-> PhySink.ib, qb |-> PhySink.qb, t |-> rx_data.t]
    ELSE [valid |-> TRUE, ia |-> rx_data.ia, qa |-> rx_data.qa,
          ib |-> rx_data.ib, qb |-> rx_data.qb, t |-> rx_data.t]

\* "Drive Source": the source registers after an rfic edge.
PhySourceNext ==
    [valid |-> TRUE, ia |-> rx_data.ia, qa |-> rx_data.qa,
     ib |-> rx_data.ib, qb |-> rx_data.qb, t |-> rx_data.t]

\* ------------------------------------------------------------------------
\* One edge of the rfic clock
\* ------------------------------------------------------------------------

RficEdge(pad, phy_ready, recRx, recTx) ==
    LET we   == RxCdcSinkValid /\ RxCdcSinkReady
        din  == [data |-> RxCdcSinkData, t |-> phy_source.t]
        re   == TxCdcSourceValid /\ TxCdcSourceReady(phy_ready)
        fire == PhySinkValid /\ phy_ready
        txn  == FifoRdClk(tx_cdc, re)
        memn == IF re THEN Append(Tail(tx_mem), tx_cdc.q[1]) ELSE tx_mem
    IN  /\ ~rst.rfic
        /\ recRx => rfic_n < MaxRficTicks
        /\ (recTx /\ fire /\ prbs_tx) => Len(tx_handed) < MaxPrbsHanded
        \* AD9361CMOSPHY
        /\ rx_frame'   = RxFrameNext(PadFrame(pad))
        /\ rx_data'    = RxDataNext(pad, IF recRx THEN rfic_n + 1 ELSE 0)
        /\ phy_source' = PhySourceNext
        \* rx_cdc, write side
        /\ rx_cdc'     = FifoWrClk(rx_cdc, we, din)
        \* tx_cdc, read side, and the PRBS generator
        /\ tx_cdc'     = txn
        /\ tx_mem'     = memn
        /\ tx_dout'    = FifoPeek(txn, memn)
        /\ prbs_generator' = PrbsGeneratorNext(phy_ready)
        \* the PRBS checkers on phy.source.ia and phy.source.ib
        /\ prbs_checker' = << PrbsCheckerNext(prbs_checker[1], phy_source.ia),
                              PrbsCheckerNext(prbs_checker[2], phy_source.ib) >>
        \* history
        /\ rfic_n'       = IF recRx THEN rfic_n + 1 ELSE rfic_n
        /\ rx_pads'      = IF recRx THEN Append(rx_pads, pad) ELSE rx_pads
        /\ rx_presented' = IF recRx /\ RxCdcSinkValid
                           THEN Append(rx_presented, phy_source) ELSE rx_presented
        /\ rx_lost'      = IF recRx /\ RxCdcSinkValid /\ ~RxCdcSinkReady
                           THEN rx_lost \cup {phy_source.t} ELSE rx_lost
        /\ frame_seen'   = FrameSeenNext
        /\ tx_popped'    = IF recTx /\ re
                           THEN Append(tx_popped, TxCdcSourceData) ELSE tx_popped
        /\ tx_handed'    = IF recTx /\ fire
                           THEN Append(tx_handed, PhySink) ELSE tx_handed
        /\ prbs_run'     = [prbs_run EXCEPT !.fresh = @ \/ PrbsGeneratorReset]
        /\ tx_seen'      = [tx_seen EXCEPT
                              !.phy_stall = @ \/ (recTx /\ TxCdcSourceValid /\ ~phy_ready),
                              !.in_test   = IF recTx /\ re /\ prbs_tx
                                            THEN @ \cup {Len(tx_popped) + 1} ELSE @]
        /\ mark'         = IF re /\ mark.pos > 0
                           THEN [pos |-> mark.pos - 1, done |-> mark.pos = 1]
                           ELSE mark
        /\ UNCHANGED << phy_mode, hdr_seen, header, dma, control, mode, loopback, prbs_tx,
                        sink, tx_buffer, rx_buffer,
                        rst, client, spi, at_reset,
                        bitmode, tx_bitmode, rx_bitmode, enable_datapath,
                        rx_delivered, agc_enabled, tx_accepted >>

RficTick(pads, recRx, recTx) ==
    \E pad \in pads, phy_ready \in PhySinkReady :
        RficEdge(pad, phy_ready, recRx, recTx)

\* ------------------------------------------------------------------------
\* One edge of the sys clock
\* ------------------------------------------------------------------------

\* What the CSR bus does in a sys cycle.
CsrNone    == { [reg |-> "none"] }
CsrPrbs    == CsrNone \cup { [reg |-> "prbs_tx", val |-> v] : v \in BOOLEAN }
CsrBitmode == CsrNone \cup { [reg |-> "bitmode", val |-> v] : v \in 0..1 }
\* The SoC around AD9361RFIC drives the enable_datapath signal.
CtlEnable  == CsrNone \cup { [reg |-> "enable_datapath", val |-> v] : v \in BOOLEAN }
CsrControl == CsrNone \cup
              { [reg |-> "control", val |-> [mode |-> m, loopback |-> l]] :
                    m \in 0..1, l \in 0..1 }

\* Both fields of the control register of the PHY set or cleared.
CsrLoopback == CsrNone \cup
               { [reg |-> "control", val |-> [mode |-> v, loopback |-> v]] :
                     v \in 0..1 }

NoOffer == [valid |-> FALSE, data |-> ZeroWord]
Offers(words) == {NoOffer} \cup { [valid |-> TRUE, data |-> w] : w \in words }

\* The number of the word the host offers next.
OfferIndex == Len(tx_accepted) + (IF sink.valid THEN 1 ELSE 0) + 1

SysEdge(offer, source_ready, csr, recRx, recTx, m) ==
    LET rxRdy   == BufferSinkReady(rx_buffer, source_ready)
        re      == RxCdcSourceValid /\ RxCdcSourceReady(rxRdy)
        deliver == rx_buffer.valid /\ source_ready
        accept  == sink.valid /\ SinkReady
        we      == TxBitmodeSourceValid /\ TxCdcSinkReady
        \* with the rfic reset still asserted the CDCs are held in reset
        txn     == IF rst.rfic THEN CdcReset(tx_cdc)
                   ELSE FifoWrClk(tx_cdc, we, TxBitmodeSourceData)
    IN  /\ ~rst.sys
        /\ (recTx /\ offer.valid) => OfferIndex <= MaxTxWords
        \* RX pipeline
        /\ rx_cdc'    = IF rst.rfic THEN CdcReset(rx_cdc) ELSE FifoRdClk(rx_cdc, re)
        /\ rx_buffer' = IF ~rxRdy THEN rx_buffer
                        ELSE IF RxBitmodeSourceValid
                             THEN [valid |-> TRUE,
                                   data  |-> RxBitmodeSourceData,
                                   t     |-> rx_cdc.q[1].t]
                             ELSE NoRx
        /\ rx_bitmode' = RxBitmodeNext(rxRdy)
        \* TX pipeline
        /\ tx_cdc'    = txn
        /\ tx_bitmode' = TxBitmodeNext
        /\ tx_buffer' = IF ~SinkReady THEN tx_buffer
                        ELSE IF sink.valid
                             THEN [valid |-> TRUE, data |-> sink.data]
                             ELSE NoTx
        \* the host holds a word it offered until it is accepted
        /\ sink'      = IF sink.valid /\ ~SinkReady THEN sink ELSE offer
        \* CSR bus
        /\ prbs_tx'   = IF csr.reg = "prbs_tx" THEN csr.val ELSE prbs_tx
        /\ control'   = IF csr.reg = "control" THEN csr.val ELSE control
        \* MultiReg(control.fields.mode, mode), MultiReg(control.fields.loopback,
        \* loopback): no output domain is given, the registers are clocked by sys
        /\ mode'      = << control.mode, mode[1] >>
        /\ loopback'  = << control.loopback, loopback[1] >>
        /\ bitmode'   = IF csr.reg = "bitmode" THEN csr.val ELSE bitmode
        /\ enable_datapath' = IF csr.reg = "enable_datapath" THEN csr.val
                              ELSE enable_datapath
        \* history
        /\ rx_delivered' = IF recRx /\ deliver
                           THEN Append(rx_delivered,
                                       [data |-> rx_buffer.data, t |-> rx_buffer.t])
                           ELSE rx_delivered
        /\ agc_enabled'  = IF recRx /\ AgcCe(rxRdy)
                           THEN Append(agc_enabled, rx_cdc.q[1].t) ELSE agc_enabled
        /\ tx_accepted'  = IF recTx /\ accept
                           THEN Append(tx_accepted, sink.data) ELSE tx_accepted
        /\ tx_seen'      = [tx_seen EXCEPT
                              !.sink_stall = @ \/ (recTx /\ sink.valid /\ ~SinkReady)]
        /\ prbs_run'     = IF csr.reg = "prbs_tx" /\ csr.val # prbs_tx
                           THEN IF csr.val
                                THEN [prbs_run EXCEPT !.start = Len(tx_handed)]
                                ELSE [prbs_run EXCEPT !.fresh = FALSE]
                           ELSE prbs_run
        /\ mark'         = IF m /\ accept /\ mark.pos = 0
                           THEN [pos |-> Len(txn.q) + 1, done |-> FALSE]
                           ELSE mark
        /\ UNCHANGED << phy_mode, hdr_seen, header, dma, rx_pads, prbs_generator, tx_mem, tx_dout,
                        prbs_checker, rx_frame, frame_seen,
                        rst, client, spi, at_reset,
                        rx_data, phy_source, rfic_n, rx_presented, rx_lost,
                        tx_popped, tx_handed >>

SysTick(script, readys, csrs, recRx, recTx, marks) ==
    \E offer \in Offers(HostWords(script, OfferIndex)), source_ready \in readys,
       csr \in csrs, m \in marks :
        SysEdge(offer, source_ready, csr, recRx, recTx, m)

\* ------------------------------------------------------------------------
\* The SPI master and its client (spi_eth_test.py)
\* ------------------------------------------------------------------------

\* AD9361SPIMaster(spi_pads, data_width=24, clk_divider=8).
SpiDataWidth == 24

\* Bits of an AD9361 register address.
SpiRegBits == 15
SpiRegs == 0..(Pow2(SpiRegBits) - 1)

\* Status reads of a run that the log keeps apart.
MaxPolls == 3

\* Steps of the SPI master from start to done.
SpiXferTicks == 2

\* What the AD9361 may answer (register 0x10 reads 0xC0 initially).
SpiMisoValues == {0, 192}

\* Python's &, | and << on non-negative integers.
RECURSIVE BitAnd(_, _)
BitAnd(a, b) ==
    IF a = 0 \/ b = 0 THEN 0
    ELSE (a % 2) * (b % 2) + 2 * BitAnd(a \div 2, b \div 2)
RECURSIVE BitOr(_, _)
BitOr(a, b) ==
    IF a = 0 THEN b
    ELSE IF b = 0 THEN a
    ELSE (IF a % 2 = 1 \/ b % 2 = 1 THEN 1 ELSE 0) + 2 * BitOr(a \div 2, b \div 2)
Shl(a, n) == a * Pow2(n)
Shr(a, n) == a \div Pow2(n)

\* A command whose address is cut to 14 bits (not what the script does).
MosiBytes_Mask3f(reg) ==
    << BitOr(Shl(0, 7), BitAnd(Shr(reg, 8), 63)), BitAnd(Shr(reg, 0), 255), 0, 0 >>

\* mosi = bytearray(4) as the script fills it for a read of reg.
MosiBytes(reg) ==
    << BitOr(Shl(0, 7), BitAnd(Shr(reg, 8), 127)), BitAnd(Shr(reg, 0), 255), 0, 0 >>

\* The word written to ad9361_spi_mosi.
MosiWord(reg) ==
    LET mosi == MosiBytes(reg)
    IN  BitOr(BitOr(Shl(mosi[1], 16), Shl(mosi[2], 8)), mosi[3])

\* The word written to ad9361_spi_control: length | start.
ControlWord == BitOr(Shl(1, 8) * 24, 1)

\* The fields of the SPI master's control register: start in bit 0, length
\* in bits 8 and up.
ControlStart(w)  == w % 2
ControlLength(w) == Shr(w, 8) % 256

\* The SPI master's status register: done, set when no transfer is running.
SpiStatus == IF spi.busy = 0 THEN 1 ELSE 0

\* What a read of the status register may return when the register has
\* other bits than done: 1 when no transfer is running, and during a
\* transfer 0 or a value with another bit set.
SpiStatusReads == IF spi.busy = 0 THEN {1} ELSE {0, 2, 4}

\* reg = 0x10
ScriptReg == 16

\* A loop left as soon as the status is not 0 (not what the script does).
PollExit_NonZero(status) == status # 0

\* A loop that reads MISO whatever the status (not what the script does).
PollExit_Always(status) == TRUE

\* while bus.regs.ad9361_spi_status.read() != 1: the loop is left when the
\* register reads 1.
PollExit(status) == status = 1

\* The script before its first bus access, and the SPI master's registers
\* after reset.
ClientIdle == [pc |-> "idle", reg |-> 0, polls |-> 0, reg_val |-> 0, log |-> << >>]
SpiIdle    == [mosi |-> 0, length |-> 0, busy |-> 0, miso |-> 0, config |-> 0]

\* A bus access of the script, as the log keeps it.
BusOp(op, val) == [op |-> op, val |-> val]

\* The state of AD9361RFIC without its SPI master.
ad9361 == << phy_mode, prbs_run, rx_pads, control, mode, loopback, prbs_tx, prbs_generator,
             sink, tx_buffer, tx_cdc, tx_mem, tx_dout,
             rx_data, phy_source, rx_cdc, rx_buffer,
             bitmode, tx_bitmode, rx_bitmode, enable_datapath, prbs_checker,
             rx_frame, frame_seen, rst, at_reset,
             rfic_n, rx_presented, rx_lost, rx_delivered, agc_enabled,
             tx_accepted, tx_popped, tx_handed, tx_seen, mark >>

\* What no step of the script or of the SPI master touches.
datapath == << ad9361, dma, header, hdr_seen >>

\* The fields of the config register that drive the rst_n and enable pads of
\* the transceiver: rst_n at offset 0, enable at offset 1.
ConfigRstN(val)   == val % 2
ConfigEnable(val) == (val \div 2) % 2

\* bus.regs.ad9361_config.write(0), then write(2): the transceiver is put in
\* reset and the config register is written again.
ClientConfig ==
    /\ client.pc \in {"idle", "config"}
    /\ LET val == IF client.pc = "idle" THEN 0 ELSE 2
       IN  /\ spi' = [spi EXCEPT !.config = val]
           /\ client' = [client EXCEPT
                            !.pc = IF client.pc = "idle" THEN "config" ELSE "mosi",
                            !.log = Append(@, BusOp("config", val))]
    /\ UNCHANGED datapath

\* reg = ...; the command is built and written to ad9361_spi_mosi.
ClientWriteMosi(regs) ==
    /\ client.pc = "mosi"
    /\ \E reg \in regs :
          /\ spi' = [spi EXCEPT !.mosi = MosiWord(reg)]
          /\ client' = [client EXCEPT !.pc = "control", !.reg = reg,
                                      !.log = Append(@, BusOp("mosi", MosiWord(reg)))]
    /\ UNCHANGED datapath

\* bus.regs.ad9361_spi_control.write(((1 << 8) * 24) | 1): the master takes
\* the length and, with start set, begins the transfer.
ClientWriteControl ==
    /\ client.pc = "control"
    /\ spi' = [spi EXCEPT !.length = ControlLength(ControlWord),
                          !.busy = IF ControlStart(ControlWord) = 1
                                   THEN SpiXferTicks ELSE @]
    /\ client' = [client EXCEPT !.pc = "poll",
                                !.log = Append(@, BusOp("control", ControlWord))]
    /\ UNCHANGED datapath

\* One evaluation of the loop condition: the status register is read as
\* status, and the loop is left or its body run.  Of a long run of status
\* reads the log keeps the first MaxPolls - 1 and the last.
ClientReadStatus(status) ==
    /\ client.pc = "poll"
    /\ client' = [client EXCEPT
                     !.pc = IF PollExit(status) THEN "read" ELSE "poll",
                     !.polls = IF @ < MaxPolls THEN @ + 1 ELSE @,
                     !.log = IF client.polls < MaxPolls
                             THEN Append(@, BusOp("status", status))
                             ELSE [@ EXCEPT ![Len(@)] = BusOp("status", status)]]
    /\ UNCHANGED << spi, datapath >>

\* reg_val = bus.regs.ad9361_spi_miso.read()
ClientReadMiso ==
    /\ client.pc = "read"
    /\ client' = [client EXCEPT !.pc = "done", !.reg_val = spi.miso,
                                !.log = Append(@, BusOp("miso", spi.miso))]
    /\ UNCHANGED << spi, datapath >>

\* The SPI master shifts; at the end of the transfer MISO holds the answer.
SpiTick ==
    /\ spi.busy > 0
    /\ \E answer \in SpiMisoValues :
          spi' = [spi EXCEPT !.busy = @ - 1,
                             !.miso = IF spi.busy = 1 THEN answer ELSE @]
    /\ UNCHANGED << client, datapath >>

\* ------------------------------------------------------------------------
\* The header stages between the PCIe DMA and AD9361RFIC (litex_m2sdr.py)
\* ------------------------------------------------------------------------

\* 64-bit words of a header: the tag and the timestamp.
HeaderWords == 2

\* What the CSR bus does to the DMA in a sys cycle.
CsrDma == CsrNone \cup { [reg |-> r, val |-> v] :
                           r \in {"reader_enable", "writer_enable"}, v \in BOOLEAN }

\* The resets with the two enables crossed (not what the code does).
HeaderTxReset_ByWriter == ~dma.writer

\* header.tx.reset = ~pcie_dma0.reader.enable
HeaderTxReset == ~dma.reader

\* header.rx.reset = ~pcie_dma0.writer.enable
HeaderRxReset == ~dma.writer

\* A header stage at a sys edge: in reset it forgets the header it was in;
\* otherwise a word of the segment's header moves it on, a payload word
\* leaves it where it is and the last word of a segment re-arms it.
HeaderNext(pos, reset, valid, last) ==
    IF reset THEN 0
    ELSE IF ~valid THEN pos
    ELSE IF last THEN 0
    ELSE IF pos < HeaderWords THEN pos + 1
    ELSE pos

\* The history of one direction: enable is the direction's enable before
\* the edge, enable_n after it.
HdrSeenNext(seen, pos, enable, enable_n, valid) ==
    [words   |-> IF enable_n /\ ~enable THEN 0
                 ELSE IF enable /\ valid /\ seen.words <= HeaderWords
                      THEN seen.words + 1
                      ELSE seen.words,
     partial |-> IF enable /\ ~enable_n THEN pos \in 1..(HeaderWords - 1)
                 ELSE seen.partial]

\* One sys edge of the two header stages and of the DMA's enable registers:
\* tx and rx say whether a word is taken by header.tx.sink and by
\* header.rx.sink, and whether it is the last of its segment.
HeaderEdge(csr, tx, rx) ==
    LET dman == [reader |-> IF csr.reg = "reader_enable" THEN csr.val ELSE dma.reader,
                 writer |-> IF csr.reg = "writer_enable" THEN csr.val ELSE dma.writer]
    IN  /\ dma' = dman
        /\ header' = [tx |-> HeaderNext(header.tx, HeaderTxReset, tx.valid, tx.last),
                      rx |-> HeaderNext(header.rx, HeaderRxReset, rx.valid, rx.last)]
        /\ hdr_seen' = [tx |-> HdrSeenNext(hdr_seen.tx, header.tx, dma.reader,
                                           dman.reader, tx.valid),
                        rx |-> HdrSeenNext(hdr_seen.rx, header.rx, dma.writer,
                                           dman.writer, rx.valid)]
        /\ UNCHANGED << ad9361, client, spi >>

\* Words at the sink of a header stage in one cycle.
HdrWords == { [valid |-> v, last |-> l] : v \in BOOLEAN, l \in BOOLEAN }

HeaderTick == \E csr \in CsrDma, tx \in HdrWords, rx \in HdrWords : HeaderEdge(csr, tx, rx)

\* ------------------------------------------------------------------------
\* Reset
\* ------------------------------------------------------------------------

\* Resets asserted in a run.
MaxResets == 1

AtResetNone == [n |-> 0, accepted |-> 0, presented |-> 0, inflight |-> FALSE]

\* The memory of tx_cdc is not reset: after the pointers are, the read port
\* addresses one of the words written last.
Rotations(mem) ==
    { [i \in 1..Len(mem) |-> mem[((i + k - 1) % Len(mem)) + 1]] : k \in 0..(Len(mem) - 1) }
MemAfterReset ==
    LET all == tx_mem \o [i \in 1..Len(tx_cdc.q) |-> tx_cdc.q[i]]
    IN  Rotations(SubSeq(all, Len(all) - CdcDepth + 1, Len(all)))

\* The sys reset is asserted.  The rfic reset follows it at once
\* (AsyncResetSynchronizer(ClockDomain("rfic"), ResetSignal("sys"))) and so
\* does the reset of both sides of the two CDCs; the registers of a domain
\* take their reset values at the domain's edges while its reset lasts.
ResetAssert ==
    /\ ~rst.sys /\ ~rst.rfic
    /\ at_reset.n < MaxResets
    /\ rst' = [sys |-> TRUE, rfic |-> TRUE]
    /\ tx_cdc' = CdcReset(tx_cdc)
    /\ rx_cdc' = CdcReset(rx_cdc)
    /\ tx_mem' \in MemAfterReset
    \* history: what was accepted and presented before the reset is counted,
    \* and the record of what left the datapath starts again
    /\ at_reset' = [n |-> at_reset.n + 1,
                    accepted |-> Len(tx_accepted),
                    presented |-> rfic_n,
                    inflight |-> tx_cdc.q # << >> /\ rx_cdc.q # << >>]
    /\ rx_presented' = << >>
    /\ rx_lost' = {}
    /\ rx_delivered' = << >>
    /\ agc_enabled' = << >>
    /\ tx_popped' = << >>
    /\ tx_handed' = << >>
    /\ tx_seen' = [sink_stall |-> FALSE, phy_stall |-> FALSE, in_test |-> {}]
    /\ UNCHANGED << phy_mode, hdr_seen, header, dma, prbs_run, rx_pads, control, mode, loopback, prbs_tx, prbs_generator,
                    sink, tx_buffer, tx_dout, rx_data, phy_source, rx_buffer,
                    bitmode, tx_bitmode, rx_bitmode, enable_datapath, prbs_checker,
                    rx_frame, frame_seen, client, spi,
                    rfic_n, tx_accepted, mark >>

\* A sys edge with the sys reset asserted; release says the reset is
\* deasserted after it.  The host is reset with the SoC; the synchronizers
\* (MultiReg) have no reset.
SysResetEdge(release) ==
    /\ rst.sys
    /\ rst' = [rst EXCEPT !.sys = ~release]
    /\ sink' = NoOffer
    /\ tx_buffer' = NoTx
    /\ rx_buffer' = NoRx
    /\ tx_bitmode' = BitmodeIdle
    /\ rx_bitmode' = [mux |-> 0]
    /\ bitmode' = 0
    /\ prbs_tx' = FALSE
    /\ control' = [mode |-> 0, loopback |-> 0]
    /\ mode' = << control.mode, mode[1] >>
    /\ loopback' = << control.loopback, loopback[1] >>
    /\ tx_cdc' = CdcReset(tx_cdc)
    /\ rx_cdc' = CdcReset(rx_cdc)
    /\ mark' = [pos |-> 0, done |-> FALSE]
    /\ prbs_run' = IF prbs_tx THEN [prbs_run EXCEPT !.fresh = FALSE] ELSE prbs_run
    /\ UNCHANGED << phy_mode, hdr_seen, header, dma, rx_pads, prbs_generator, tx_mem, tx_dout,
                    rx_data, phy_source, enable_datapath, prbs_checker,
                    rx_frame, frame_seen, client, spi, at_reset,
                    rfic_n, rx_presented, rx_lost, rx_delivered, agc_enabled,
                    tx_accepted, tx_popped, tx_handed, tx_seen >>

\* An rfic edge with the rfic reset asserted; the rfic reset is released
\* after the sys reset, which it is derived from.  The memory read port has
\* no reset.
RficResetEdge(release) ==
    /\ rst.rfic
    /\ release => ~rst.sys
    /\ rst' = [rst EXCEPT !.rfic = ~release]
    /\ rx_frame' = [q |-> 0, d |-> 0, rising_d |-> 0]
    /\ rx_data' = [ia |-> 0, qa |-> 0, ib |-> 0, qb |-> 0, t |-> 0]
    /\ phy_source' = [valid |-> FALSE, ia |-> 0, qa |-> 0, ib |-> 0, qb |-> 0, t |-> 0]
    /\ prbs_generator' = 0
    /\ prbs_checker' = << PrbsCheckerIdle, PrbsCheckerIdle >>
    /\ tx_cdc' = CdcReset(tx_cdc)
    /\ rx_cdc' = CdcReset(rx_cdc)
    /\ tx_dout' = FifoPeek(CdcReset(tx_cdc), tx_mem)
    /\ prbs_run' = [prbs_run EXCEPT !.fresh = TRUE]
    /\ UNCHANGED << phy_mode, hdr_seen, header, dma, rx_pads, control, mode, loopback, prbs_tx,
                    sink, tx_buffer, tx_mem, rx_buffer,
                    bitmode, tx_bitmode, rx_bitmode, enable_datapath,
                    frame_seen, client, spi, at_reset,
                    rfic_n, rx_presented, rx_lost, rx_delivered, agc_enabled,
                    tx_accepted, tx_popped, tx_handed, tx_seen, mark >>

\* ------------------------------------------------------------------------
\* Specifications
\* ------------------------------------------------------------------------

\* The state after reset, for the PHY variants in modes; douts is what
\* tx_cdc's read port may hold.
ResetWith(modes, douts) ==
    /\ phy_mode \in modes
    /\ control = [mode |-> 0, loopback |-> 0]
    /\ mode = <<0, 0>>
    /\ loopback = <<0, 0>>
    /\ prbs_tx = FALSE
    /\ prbs_generator = 0
    /\ sink = NoOffer
    /\ tx_buffer = NoTx
    /\ tx_cdc = FifoInit
    /\ tx_mem = [i \in 1..CdcDepth |-> ZeroWord]
    /\ tx_dout \in douts
    /\ rst = [sys |-> FALSE, rfic |-> FALSE]
    /\ at_reset = AtResetNone
    /\ client = ClientIdle
    /\ spi = SpiIdle
    /\ rx_frame = [q |-> 0, d |-> 0, rising_d |-> 0]
    /\ frame_seen = [gap |-> 0, late |-> FALSE]
    /\ rx_data = [ia |-> 0, qa |-> 0, ib |-> 0, qb |-> 0, t |-> 0]
    /\ phy_source = [valid |-> FALSE, ia |-> 0, qa |-> 0, ib |-> 0, qb |-> 0, t |-> 0]
    /\ rx_cdc = FifoInit
    /\ rx_buffer = NoRx
    /\ bitmode = 0
    /\ tx_bitmode = BitmodeIdle
    /\ rx_bitmode = [mux |-> 0]
    /\ enable_datapath = TRUE
    /\ prbs_checker = << PrbsCheckerIdle, PrbsCheckerIdle >>
    /\ rfic_n = 0
    /\ rx_presented = <<>>
    /\ rx_lost = {}
    /\ rx_delivered = <<>>
    /\ agc_enabled = <<>>
    /\ tx_accepted = <<>>
    /\ tx_popped = <<>>
    /\ tx_handed = <<>>
    /\ tx_seen = [sink_stall |-> FALSE, phy_stall |-> FALSE, in_test |-> {}]
    /\ rx_pads = << >>
    /\ prbs_run = [start |-> 0, fresh |-> TRUE]
    /\ dma = [reader |-> FALSE, writer |-> FALSE]
    /\ header = [tx |-> 0, rx |-> 0]
    /\ hdr_seen = [tx |-> [words |-> 0, partial |-> FALSE], rx |-> [words |-> 0, partial |-> FALSE]]
    /\ mark = [pos |-> 0, done |-> FALSE]

Reset(modes) == ResetWith(modes, {ZeroWord})

\* RX: the CMOS PHY receives, the consumer stalls at will, the host sends
\* nothing; the samples are recorded.
Init == Reset({"cmos"})
Next == \/ RficTick(PadPairs, TRUE, FALSE)
        \/ SysTick(HostNone, BOOLEAN, CsrNone, TRUE, FALSE, {FALSE})
Spec == Init /\ [][Next]_vars

\* TX: the host sends, the PHY stalls at will, self-test stays disabled; the
\* words are recorded.
InitTX == Reset({"lvds", "cmos"})
NextTX == \/ RficTick(PadIdle, FALSE, TRUE)
          \/ SysTick(HostScript, {TRUE}, CsrNone, FALSE, TRUE, {FALSE})
SpecTX == InitTX /\ [][NextTX]_vars

\* Self-test: the host sends while the prbs_tx CSR is written.
InitPrbs == Reset({"lvds", "cmos"})
NextPrbs == \/ RficTick(PadIdle, FALSE, FALSE)
            \/ SysTick(HostOne, {TRUE}, CsrPrbs, FALSE, FALSE, {FALSE})
SpecPrbs == InitPrbs /\ [][NextPrbs]_vars

\* TX with both clocks running for ever and an LVDS PHY that is ready in
\* infinitely many of its cycles (the CMOS PHY never is); one accepted word
\* is followed (mark).
FairRficTick ==
    \E pad \in PadIdle : RficEdge(pad, phy_mode = "lvds", FALSE, FALSE)
InitLive == Reset({"lvds", "cmos"})
NextLive == \/ RficTick(PadIdle, FALSE, FALSE)
            \/ SysTick(HostOne, {TRUE}, CsrNone, FALSE, FALSE, BOOLEAN)
SpecLive == /\ InitLive /\ [][NextLive]_vars
            /\ WF_vars(SysTick(HostOne, {TRUE}, CsrNone, FALSE, FALSE, BOOLEAN))
            /\ WF_vars(FairRficTick)

\* Control: the CMOS PHY receives while its control CSR is written.
InitCtl == Reset({"cmos"})
NextCtl == \/ RficTick(PadPairs, FALSE, FALSE)
           \/ SysTick(HostNone, BOOLEAN, CsrControl, FALSE, FALSE, {FALSE})
SpecCtl == InitCtl /\ [][NextCtl]_vars


\* The CMOS PHY receives any data with any framing while its control
\* register is written and the self-test generator drives phy.sink or leaves
\* it idle.
InitNI == Reset({"cmos"})
NextNI == \/ Len(rx_pads) < MaxPadHistory /\ RficTick(PadVaried, TRUE, FALSE)
          \/ SysTick(HostNone, {TRUE}, CsrLoopback \cup CsrPrbs, FALSE, FALSE, {FALSE})
SpecNI == InitNI /\ [][NextNI]_vars

\* The DMA is enabled and disabled while segments pass the header stages.
InitHdr == Reset({"cmos"})
NextHdr == HeaderTick
SpecHdr == InitHdr /\ [][NextHdr]_vars

\* Self-test, TX: the host switches the PRBS generator on and off and sends
\* nothing, the PHY stalls at will; what is handed to the PHY is recorded.
InitPrbsTx == Reset({"lvds", "cmos"})
NextPrbsTx == \/ RficTick(PadIdle, FALSE, TRUE)
              \/ SysTick(HostNone, {TRUE}, CsrPrbs, FALSE, TRUE, {FALSE})
SpecPrbsTx == InitPrbsTx /\ [][NextPrbsTx]_vars

\* Self-test is switched on and off while the host sends two words to the
\* LVDS PHY.
InitDrop == Reset({"lvds"})
NextDrop == \/ Len(tx_handed) < MaxDropHanded /\ RficTick(PadIdle, FALSE, TRUE)
            \/ SysTick(HostPair, {TRUE}, CsrPrbs, FALSE, TRUE, {FALSE})
SpecDrop == InitDrop /\ [][NextDrop]_vars

\* Bit mode: the CMOS PHY receives and the host sends while the bitmode CSR
\* is written.
InitMode == Reset({"cmos"})
NextMode == \/ RficTick(PadIdle, FALSE, FALSE)
            \/ SysTick(HostOne, {TRUE}, CsrBitmode, FALSE, FALSE, {FALSE})
SpecMode == InitMode /\ [][NextMode]_vars

\* Enable: the CMOS PHY receives and the host sends while enable_datapath
\* is driven; the words are recorded.
InitEn == Reset({"cmos"})
NextEn == \/ RficTick(PadIdle, TRUE, TRUE)
          \/ SysTick(HostOne, {TRUE}, CtlEnable, TRUE, TRUE, {FALSE})
SpecEn == InitEn /\ [][NextEn]_vars

\* Self-test, RX: the CMOS PHY receives values of the PRBS sequence, in and
\* out of order.
InitPrbsRx == Reset({"cmos"})
NextPrbsRx == \/ RficTick(PadPrbs, FALSE, FALSE)
              \/ SysTick(HostNone, {TRUE}, CsrNone, FALSE, FALSE, {FALSE})
SpecPrbsRx == InitPrbsRx /\ [][NextPrbsRx]_vars

\* Framing: the CMOS PHY receives while the framing line does anything.
InitFrame == Reset({"cmos"})
NextFrame == \/ RficTick(PadFramed, FALSE, FALSE)
             \/ SysTick(HostNone, BOOLEAN, CsrNone, FALSE, FALSE, {FALSE})
SpecFrame == InitFrame /\ [][NextFrame]_vars

\* Reset: both directions run and are recorded, and the sys reset is
\* asserted once, at any moment.
InitRst == Reset({"lvds", "cmos"})
NextRst == \/ RficTick(PadIdle, TRUE, TRUE)
           \/ SysTick(HostFew, {TRUE}, CsrNone, TRUE, TRUE, {FALSE})
           \/ ResetAssert
           \/ \E release \in BOOLEAN : SysResetEdge(release)
           \/ \E release \in BOOLEAN : RficResetEdge(release)
SpecRst == InitRst /\ [][NextRst]_vars

\* The script reads one register of the AD9361, any of them, while the SPI
\* master runs.
InitSpi == Reset({"cmos"})
NextSpi == \/ ClientConfig
           \/ ClientWriteMosi(SpiRegs)
           \/ ClientWriteControl
           \/ ClientReadStatus(SpiStatus)
           \/ ClientReadMiso
           \/ SpiTick
SpecSpi == InitSpi /\ [][NextSpi]_vars

\* The script as it is (register 0x10) with a status register that may read
\* other values than 0 and 1; the script and the SPI master both keep
\* running.
ClientStep == \/ ClientConfig
              \/ ClientWriteMosi({ScriptReg})
              \/ ClientWriteControl
              \/ \E status \in SpiStatusReads : ClientReadStatus(status)
              \/ ClientReadMiso
InitPoll == Reset({"cmos"})
NextPoll == ClientStep \/ SpiTick
SpecPoll == /\ InitPoll /\ [][NextPoll]_vars
            /\ WF_vars(ClientStep)
            /\ WF_vars(SpiTick)

\* Loop: a word at tx_cdc.source goes to phy.sink (LoopTx), the PHY returns
\* the sample it was given (LoopPhy), and the RX path pushes it into rx_cdc
\* (LoopRx).
LoopFields == {0, 100, 2047, 2048, 4660, 63488, 65336, 65535}
LoopWords  == { <<a, b, c, d>> : a \in LoopFields, b \in {0, 2047, 2048, 63488},
                                 c \in {7, 4660, 65535}, d \in {8, 43981, 61440} }

LoopTx ==
    /\ tx_handed = << >>
    /\ tx_handed' = << PhySink >>
    /\ UNCHANGED << phy_mode, hdr_seen, header, dma, prbs_run, rx_pads, control, mode, loopback, prbs_tx, prbs_generator,
                    sink, tx_buffer, tx_cdc, tx_mem, tx_dout,
                    rx_data, phy_source, rx_cdc, rx_buffer,
                    bitmode, tx_bitmode, rx_bitmode, enable_datapath, prbs_checker,
                    rx_frame, frame_seen, rst, client, spi, at_reset,
                    rfic_n, rx_presented, rx_lost, rx_delivered, agc_enabled,
                    tx_accepted, tx_popped, tx_seen, mark >>

LoopPhy ==
    /\ Len(tx_handed) = 1
    /\ ~phy_source.valid
    /\ phy_source' = [valid |-> TRUE, ia |-> tx_handed[1].ia, qa |-> tx_handed[1].qa,
                      ib |-> tx_handed[1].ib, qb |-> tx_handed[1].qb, t |-> 0]
    /\ UNCHANGED << phy_mode, hdr_seen, header, dma, prbs_run, rx_pads, control, mode, loopback, prbs_tx, prbs_generator,
                    sink, tx_buffer, tx_cdc, tx_mem, tx_dout,
                    rx_data, rx_cdc, rx_buffer,
                    bitmode, tx_bitmode, rx_bitmode, enable_datapath, prbs_checker,
                    rx_frame, frame_seen, rst, client, spi, at_reset,
                    rfic_n, rx_presented, rx_lost, rx_delivered, agc_enabled,
                    tx_accepted, tx_popped, tx_handed, tx_seen, mark >>

LoopRx ==
    /\ RxCdcSinkValid /\ RxCdcSinkReady
    /\ rx_cdc.q = << >>
    /\ rx_cdc' = FifoWrClk(rx_cdc, TRUE, [data |-> RxCdcSinkData, t |-> phy_source.t])
    /\ UNCHANGED << phy_mode, hdr_seen, header, dma, prbs_run, rx_pads, control, mode, loopback, prbs_tx, prbs_generator,
                    sink, tx_buffer, tx_cdc, tx_mem, tx_dout,
                    rx_data, phy_source, rx_buffer,
                    bitmode, tx_bitmode, rx_bitmode, enable_datapath, prbs_checker,
                    rx_frame, frame_seen, rst, client, spi, at_reset,
                    rfic_n, rx_presented, rx_lost, rx_delivered, agc_enabled,
                    tx_accepted, tx_popped, tx_handed, tx_seen, mark >>

InitLoop == ResetWith({"lvds"}, LoopWords)
NextLoop == LoopTx \/ LoopPhy \/ LoopRx
SpecLoop == InitLoop /\ [][NextLoop]_vars

\* ------------------------------------------------------------------------
\* What the properties are stated with
\* ------------------------------------------------------------------------

\* A 12-bit field read as a signed number, and a signed number written as
\* a 16-bit two's complement field.
Signed12(v)  == IF v >= 2048 THEN v - 4096 ELSE v
AsField16(x) == IF x < 0 THEN x + 65536 ELSE x

\* The 64-bit word a PHY sample is expected to arrive as.
ExpectedWord(smp) ==
    << AsField16(Signed12(smp.ia)), AsField16(Signed12(smp.qa)),
       AsField16(Signed12(smp.ib)), AsField16(Signed12(smp.qb)) >>

\* Bit b of an unsigned value.
BitOf(v, b) == (v \div (2 ^ b)) % 2

\* The RX words between rx_cdc.sink and AD9361RFIC.source, oldest first.
RxInFlight ==
    (IF rx_buffer.valid
     THEN << [data |-> rx_buffer.data, t |-> rx_buffer.t] >> ELSE << >>)
    \o rx_cdc.q

\* The presented samples that were not lost, as the words expected of them.
RxKept ==
    LET Kept(smp) == smp.t \notin rx_lost
        kept == SelectSeq(rx_presented, Kept)
    IN  [i \in 1..Len(kept) |-> [data |-> ExpectedWord(kept[i]), t |-> kept[i].t]]

\* C1: RX path, 16-bit mode: as long as rx_cdc was never full in a cycle
\* where the PHY presented a sample, the words transferred at
\* AD9361RFIC.source, followed by those still in the pipeline, are the
\* samples the PHY presented, each field sign-extended to 16 bits, in order,
\* none lost, none twice, whatever the stalls on source.ready.
C1_RxLossless ==
    rx_lost = {} =>
        rx_delivered \o RxInFlight =
            [i \in 1..Len(rx_presented) |->
                [data |-> ExpectedWord(rx_presented[i]), t |-> rx_presented[i].t]]

\* C1 witness: four samples delivered with nothing lost, the consumer
\* stalling the fifth word, the fourth holding negative fields.
C1_Witness ==
    /\ rx_lost = {}
    /\ Len(rx_delivered) = 4
    /\ rx_delivered[4].data = <<2047, 63488, 0, 0>>
    /\ rx_delivered[3].data = <<100, 65336, 0, 0>>
    /\ rx_buffer.valid

\* C4: the CMOS PHY is a free-running source: after the first rfic edge
\* source.valid is 1 in every rfic cycle, whatever rx_cdc.sink.ready is or was.
C4_SourceAlwaysValid == rfic_n >= 1 => phy_source.valid

\* C4 witness: valid is high in a cycle where ready is low, after a cycle
\* where ready was low too (a sample was lost then).
C4_Witness ==
    /\ rfic_n >= 3
    /\ rx_lost # {}
    /\ ~RxCdcSinkReady
    /\ phy_source.valid

\* C5: a sample presented while rx_cdc is full is lost (it is never at the
\* source nor in the pipeline), the PHY is not stalled (every rfic cycle after
\* the first presents the sample captured one cycle later than the last),
\* and the samples accepted are delivered in production order.
C5_FullDropsSample ==
    /\ \A i \in 1..Len(rx_delivered) : rx_delivered[i].t \notin rx_lost
    /\ \A i \in 1..Len(RxInFlight) : RxInFlight[i].t \notin rx_lost
    /\ rx_delivered \o RxInFlight = RxKept
    /\ rfic_n >= 1 => /\ Len(rx_presented) = rfic_n - 1
                      /\ phy_source.t = rfic_n - 1
    /\ \A i \in 1..Len(rx_presented) : rx_presented[i].t = i - 1

\* C5 witness: a sample was lost and a sample presented after it is at the
\* source.
C5_Witness ==
    \E l \in rx_lost : \E i \in 1..Len(rx_delivered) :
        /\ rx_delivered[i].t > l
        /\ i > 1

\* C8: every word in rx_cdc holds IA in bits 15:0, QA in 31:16, IB in 47:32
\* and QB in 63:48, and in each field bits 15..12 all equal bit 11.
C8_RxWordLayout ==
    \A i \in 1..Len(rx_cdc.q) :
        LET w   == rx_cdc.q[i].data
            smp == rx_presented[rx_cdc.q[i].t + 1]
        IN  /\ w[1] % 4096 = smp.ia
            /\ w[2] % 4096 = smp.qa
            /\ w[3] % 4096 = smp.ib
            /\ w[4] % 4096 = smp.qb
            /\ \A k \in 1..4 : \A b \in 12..15 : BitOf(w[k], b) = BitOf(w[k], 11)

\* C8 witness: rx_cdc holds a word with a negative and a positive field.
C8_Witness ==
    \E i \in 1..Len(rx_cdc.q) :
        /\ BitOf(rx_cdc.q[i].data[2], 11) = 1
        /\ rx_cdc.q[i].data[1] = 100

\* C9: in the CMOS PHY source.ib = 0 and source.qb = 0 in every state,
\* whatever control.mode, control.loopback and the data pads are.
C9_ChannelBZero == phy_source.ib = 0 /\ phy_source.qb = 0

\* C9 witness: data on channel A while 2R2T mode and loopback have been 
\* written and have come through their synchronizers; and the same in 1R1T.
C9_Witness ==
    /\ phy_source.valid
    /\ phy_source.ia = 2047
    /\ control = [mode |-> Mode2R2T, loopback |-> 1]
    /\ mode = <<Mode2R2T, Mode2R2T>>
    /\ loopback = <<1, 1>>

\* C6: with phy_mode = 'cmos' a write of control.loopback = 1 is refused:
\* the CSR never holds the unsupported setting.
C6_LoopbackRefused == phy_mode = "cmos" => control.loopback = 0


\* The TX words between AD9361RFIC.sink and tx_cdc.source, oldest first.
TxInFlight ==
    tx_cdc.q \o (IF tx_buffer.valid THEN << tx_buffer.data >> ELSE << >>)

\* The low 12 bits of a 16-bit field.
Low12(v) == v - 4096 * (v \div 4096)

\* C2: TX path, self-test disabled, 16-bit mode: the words accepted at
\* AD9361RFIC.sink are, in acceptance order, the words handed to phy.sink
\* followed by the words still in the pipeline: each accepted word is handed
\* over once, in order (as the low 12 bits of its four fields), whatever
\* the stalls of phy.sink.ready; a word the host still offers is in neither.
C2_TxExactlyOnce ==
    /\ tx_accepted = tx_popped \o TxInFlight
    /\ Len(tx_handed) = Len(tx_popped)
    /\ \A i \in 1..Len(tx_handed) :
          /\ tx_handed[i].ia = Low12(tx_popped[i][1])
          /\ tx_handed[i].qa = Low12(tx_popped[i][2])
          /\ tx_handed[i].ib = Low12(tx_popped[i][3])
          /\ tx_handed[i].qb = Low12(tx_popped[i][4])

\* C2 witness: five words handed to the PHY, two of them different, after
\* the host was stalled at the sink and tx_cdc was stalled by the PHY.
C2_Witness ==
    /\ Len(tx_handed) = 5
    /\ tx_handed[1] # tx_handed[2]
    /\ tx_seen.sink_stall
    /\ tx_seen.phy_stall

IsSignExtended(v) == v < 2048 \/ v >= 63488

\* C7: 16-bit-mode round trip: a word whose four fields are sign extensions
\* of 12-bit values, sent to phy.sink and returned by the PHY on phy.source,
\* is pushed into rx_cdc equal to the word sent.
C7_RoundTrip ==
    (Len(rx_cdc.q) = 1 /\ \A k \in 1..4 : IsSignExtended(tx_dout[k])) =>
        rx_cdc.q[1].data = tx_dout

\* C7 witness: a word of positive and negative fields has made the trip.
C7_Witness ==
    /\ Len(rx_cdc.q) = 1
    /\ tx_dout = <<65336, 63488, 65535, 8>>
    /\ rx_cdc.q[1].data = tx_dout

\* C10: a sample presented to phy.sink is PRBS data in all its fields when
\* self-test is enabled and live TX data in all its fields when it is
\* disabled; it never mixes the two.
C10_NoMixing ==
    PhySinkValid =>
        LET drv == PhySink.drv
        IN  /\ prbs_tx  => \A f \in {"ia", "qa", "ib", "qb"} : drv[f] = "prbs"
            /\ ~prbs_tx => \A f \in {"ia", "qa", "ib", "qb"} : drv[f] = "tx"

\* ------------------------------------------------------------------------
\* Bit mode
\* ------------------------------------------------------------------------

\* No word is between tx_bitmode and rx_bitmode.
BitmodePipelineDrained == tx_cdc.q = << >> /\ rx_cdc.q = << >>

\* C11: a write to the bitmode CSR changes the mode the stages use only
\* when no word is between tx_bitmode and rx_bitmode: a change of mode
\* while words are in flight is prevented.
C11_ModeChangeOnlyWhenDrained ==
    [][bitmode' # bitmode => BitmodePipelineDrained]_vars

\* C12: in every state tx_bitmode.mode = rx_bitmode.mode = the mode field
\* of the bitmode CSR.
C12_ModesAgree ==
    /\ TxBitmodeMode = bitmode
    /\ RxBitmodeMode = bitmode
    /\ TxBitmodeMode = RxBitmodeMode

\* C12 witness: the CSR was written to 8-bit mode with words in flight:
\* tx_bitmode has packed a word, rx_bitmode is half-way through one.
C12_Witness ==
    /\ bitmode = 1
    /\ tx_bitmode.strobe_all
    /\ rx_bitmode.mux = 1
    /\ tx_cdc.q # << >>
    /\ rx_cdc.q # << >>

\* C13: while enable_datapath is 0 no word is transferred at
\* AD9361RFIC.sink and none at AD9361RFIC.source.
C13_DisabledStopsDatapath ==
    [][~enable_datapath =>
          (tx_accepted' = tx_accepted /\ rx_delivered' = rx_delivered)]_vars

\* ------------------------------------------------------------------------
\* Self-test status
\* ------------------------------------------------------------------------

\* C14: prbs_rx.synced is, in every cycle, the AND of the synced outputs of
\* the IA-lane and the IB-lane checker: 0 in the cycle in which either is
\* not synced, 1 only when both are.
C14_SyncedIsAndOfLanes ==
    /\ PrbsRxSynced = (prbs_checker[1].synced /\ prbs_checker[2].synced)
    /\ (~prbs_checker[1].synced \/ ~prbs_checker[2].synced) => ~PrbsRxSynced

\* C14 witness: the IA lane is not synchronized (it has just seen the first
\* value of the sequence) while the IB lane is, and the overall status is 0.
C14_Witness ==
    /\ ~prbs_checker[1].synced
    /\ prbs_checker[1].expect = 4009
    /\ prbs_checker[2].synced
    /\ ~PrbsRxSynced

\* C14, second witness: both lanes synced on PRBS data, overall status 1.
C14_BothSynced ==
    /\ prbs_checker[1].synced /\ prbs_checker[1].expect = 1278
    /\ prbs_checker[2].synced
    /\ PrbsRxSynced

\* ------------------------------------------------------------------------
\* AGC
\* ------------------------------------------------------------------------

\* The RX words that have left rx_cdc, oldest first.
RxLeftCdc ==
    rx_delivered \o
    (IF rx_buffer.valid
     THEN << [data |-> rx_buffer.data, t |-> rx_buffer.t] >> ELSE << >>)

\* C15: the AGC counters are enabled in exactly the sys cycles where a word
\* is transferred at rx_cdc.source: the words they were enabled for are the
\* words that have left rx_cdc, each once and in order; a word stalled at
\* rx_cdc.source is not counted until it is transferred, and a sample lost
\* before the CDC is never counted.
C15_AgcCountsTransfers ==
    /\ agc_enabled = [i \in 1..Len(RxLeftCdc) |-> RxLeftCdc[i].t]
    /\ \A i \in 1..Len(agc_enabled) : agc_enabled[i] \notin rx_lost
    /\ \A i, j \in 1..Len(agc_enabled) : i # j => agc_enabled[i] # agc_enabled[j]
    /\ \A i \in 1..Len(rx_cdc.q) :
          \A j \in 1..Len(agc_enabled) : agc_enabled[j] # rx_cdc.q[i].t

\* C15 witness: three words counted, a sample lost before the CDC, and a
\* word offered at rx_cdc.source while rx_buffer is full.
C15_Witness ==
    /\ Len(agc_enabled) = 3
    /\ rx_lost # {}
    /\ RxCdcSourceValid
    /\ rx_buffer.valid
    /\ Len(rx_delivered) = 2

\* ------------------------------------------------------------------------
\* Framing
\* ------------------------------------------------------------------------

\* C16: a rising edge of the framing line that comes later than the
\* expected period after the edge before it is surfaced: once the PHY has
\* registered such an edge it reports synchronization lost, or at least
\* stops presenting samples as valid.
C16_FrameLossSurfaced ==
    (frame_seen.late /\ rx_frame.rising_d = 1) =>
        (CmosPhySyncLost \/ ~phy_source.valid)


\* ------------------------------------------------------------------------
\* C17: reset
\* ------------------------------------------------------------------------

\* A sample captured from the pads after the last reset, or the reset
\* value of the PHY's data registers (tag 0).
SinceReset(t) == t = 0 \/ t > at_reset.presented

\* The words the host had accepted at the sink after the last reset.
AcceptedAfterReset ==
    { tx_accepted[k] : k \in (at_reset.accepted + 1)..Len(tx_accepted) }

\* C17: while the sys reset, or the rfic reset derived from it, is asserted
\* both CDCs are empty on both sides; after a reset every word that leaves
\* tx_cdc and is handed to phy.sink was accepted at the sink after the
\* reset, every word delivered at the source, held by rx_buffer or readable
\* in rx_cdc was presented by the PHY after the reset (from the pads or from
\* the reset value of its registers), so that the consumer sees valid low
\* until a post-reset sample has been written.
C17_ResetEmptiesCdcs ==
    /\ (rst.sys \/ rst.rfic) => (tx_cdc = FifoInit /\ rx_cdc = FifoInit)
    /\ at_reset.n > 0 =>
         /\ \A i \in 1..Len(tx_popped) : tx_popped[i] \in AcceptedAfterReset
         /\ Len(tx_handed) = Len(tx_popped)
         /\ \A i \in 1..Len(tx_handed) :
               /\ tx_handed[i].ia = Low12(tx_popped[i][1])
               /\ tx_handed[i].qa = Low12(tx_popped[i][2])
               /\ tx_handed[i].ib = Low12(tx_popped[i][3])
               /\ tx_handed[i].qb = Low12(tx_popped[i][4])
         /\ \A i \in 1..Len(tx_cdc.q) : tx_cdc.q[i] \in AcceptedAfterReset
         /\ \A i \in 1..Len(rx_delivered) : SinceReset(rx_delivered[i].t)
         /\ \A i \in 1..Len(rx_cdc.q) : SinceReset(rx_cdc.q[i].t)
         /\ (~rst.sys /\ rx_buffer.valid) =>
               (SinceReset(rx_buffer.t) /\ rx_presented # << >>)

\* C17 witness: the reset was asserted while both CDCs held words, and
\* since then a word has been handed to phy.sink and a word has been
\* delivered at the source.
C17_Witness ==
    /\ at_reset.n = 1
    /\ at_reset.inflight
    /\ ~rst.sys /\ ~rst.rfic
    /\ Len(tx_handed) >= 1
    /\ \E i \in 1..Len(rx_delivered) : rx_delivered[i].t > at_reset.presented


\* ------------------------------------------------------------------------
\* C18: control flags cross to the rfic domain through synchronizers
\* ------------------------------------------------------------------------

\* C18: a control flag written in the sys domain reaches the logic clocked
\* by rfic only through a multi-stage synchronizer: the step that writes the
\* self-test enable leaves the generator's reset and phy.sink.valid, which
\* the rfic logic reads, as they were, and the step that writes the PHY mode
\* or loopback flag leaves the last synchronizer stage as it was.
C18_FlagsSynchronized ==
    [][/\ prbs_tx' # prbs_tx =>
            /\ PrbsGeneratorReset' = PrbsGeneratorReset
            /\ PhySinkValid' = PhySinkValid
       /\ control' # control =>
            /\ mode'[2] = mode[2]
            /\ loopback'[2] = loopback[2]]_vars


\* ------------------------------------------------------------------------
\* C19, C20: the SPI register read of spi_eth_test.py
\* ------------------------------------------------------------------------

\* The bus accesses of the script to the SPI master, in order.
SpiLog == SelectSeq(client.log, LAMBDA e : e.op # "config")

\* C19: whatever the register address (15 bits), the command written to the
\* MOSI register is a 24-bit word whose bit 23 is 0, whose bits 22..8 are the
\* address and whose bits 7..0 are 0; the control write asks for a length of
\* 24 bits, the data width of the SPI master, with the start bit set.
C19_ReadCommandFormat ==
    \A i \in 1..Len(client.log) :
        LET e == client.log[i]
        IN  /\ e.op = "mosi" =>
                /\ e.val < Pow2(SpiDataWidth)
                /\ BitOf(e.val, 23) = 0
                /\ (e.val \div 256) % Pow2(SpiRegBits) = client.reg
                /\ e.val % 256 = 0
                /\ spi.mosi = e.val
            /\ e.op = "control" =>
                /\ ControlLength(e.val) = 24
                /\ ControlLength(e.val) = SpiDataWidth
                /\ ControlStart(e.val) = 1
                /\ e.val = 24 * 256 + 1
                /\ spi.length = 24

\* C19 witness: the command for the highest address has been written, and
\* the control word after it.
C19_Witness ==
    /\ client.reg = Pow2(SpiRegBits) - 1
    /\ client.pc = "poll"
    /\ spi.mosi = 8388352
    /\ spi.busy = SpiXferTicks

\* C19 witness: the command for register 0x10, as the script has it.
C19_WitnessReg16 ==
    /\ client.reg = 16
    /\ client.pc = "poll"
    /\ spi.mosi = 4096

\* C20: the script accesses the SPI master in this order: MOSI is written
\* first, control right after it, then the status is read, again after
\* each read that did not return 1, and MISO is read only right after a
\* status read that returned 1, when the transfer is over.
C20_ReadOrder ==
    /\ \A i \in 1..Len(SpiLog) :
          LET e == SpiLog[i]
          IN  /\ e.op = "mosi"    => i = 1
              /\ e.op = "control" => i = 2 /\ SpiLog[1].op = "mosi"
              /\ e.op = "status"  => /\ i >= 3
                                     /\ SpiLog[i - 1].op \in {"control", "status"}
                                     /\ SpiLog[i - 1].op = "status" => SpiLog[i - 1].val # 1
              /\ e.op = "miso"    => /\ i >= 4
                                     /\ SpiLog[i - 1] = BusOp("status", 1)
                                     /\ i = Len(SpiLog)
    /\ client.pc \in {"read", "done"} => spi.busy = 0

\* C20 witness: MISO has been read after two status reads, the first of
\* which found the transfer running.
C20_Witness ==
    /\ client.pc = "done"
    /\ Len(SpiLog) = 5
    /\ SpiLog[3] = BusOp("status", 0)
    /\ SpiLog[4] = BusOp("status", 1)
    /\ SpiLog[5].op = "miso"
    /\ client.reg_val = 192


\* ------------------------------------------------------------------------
\* C21: sample atomicity of the CMOS PHY
\* ------------------------------------------------------------------------

\* The sample is the pair the IDDRs output in the bus cycle that ended at
\* edge smp.t (tag 0: the reset value of the data registers).
FromOneCycle(smp) ==
    IF smp.t = 0 THEN smp.ia = 0 /\ smp.qa = 0
    ELSE /\ smp.t <= Len(rx_pads)
         /\ smp.ia = rx_pads[smp.t][1]
         /\ smp.qa = rx_pads[smp.t][2]

PrbsRunInOrder ==
    /\ \A i \in (prbs_run.start + 1)..Len(tx_handed) :
          /\ tx_handed[i].ia = PrbsO((i - prbs_run.start - 1) % PrbsPeriod)
          /\ tx_handed[i].ib = tx_handed[i].ia
    /\ PhySink.ia = PrbsO((Len(tx_handed) - prbs_run.start) % PrbsPeriod)

\* C22 as claimed: each time self-test is enabled the sequence handed to
\* phy.sink starts from the same first value and advances with the samples
\* the PHY accepts, whatever its stalls.
C22_PrbsRestarts ==
    prbs_tx => PrbsRunInOrder

\* C22 amended: the generator is in reset after every rfic edge at which
\* prbs_tx.enable is 0, and when self-test is enabled after such an edge the
\* sequence handed to phy.sink starts from the same first value and advances
\* with the samples the PHY accepts, whatever its stalls; when enable was 0
\* for less than an rfic cycle the generator was not reset and the sequence
\* goes on where it was.
C22_PrbsRestartsAfterReset ==
    /\ (~prbs_tx /\ prbs_run.fresh) => prbs_generator = 0
    /\ (prbs_tx /\ prbs_run.fresh) => PrbsRunInOrder

\* C22 witness: self-test is enabled for the second time, after a reset of
\* the generator, and two values have been handed over in each period.
C22_Witness ==
    /\ prbs_tx /\ prbs_run.fresh
    /\ phy_mode = "lvds"
    /\ prbs_run.start = 2
    /\ Len(tx_handed) = 4
    /\ tx_handed[3].ia = PrbsO(0)
    /\ tx_handed[4].ia = PrbsO(1)


\* ------------------------------------------------------------------------
\* C23: reset of the header stages
\* ------------------------------------------------------------------------

\* C23: with PCIe, the TX header stage is in reset exactly while the DMA
\* reader is disabled and the RX header stage exactly while the DMA writer
\* is disabled: a stage is cleared at every sys edge of a disabled cycle,
\* and in an enabled period it holds no part of a header before the first
\* word of the period, also when the period before ended inside a header.
C23_HeaderResetWhileDisabled ==
    /\ [](/\ HeaderTxReset = ~dma.reader
          /\ HeaderRxReset = ~dma.writer
          /\ (dma.reader /\ hdr_seen.tx.words = 0) => header.tx = 0
          /\ (dma.writer /\ hdr_seen.rx.words = 0) => header.rx = 0)
    /\ [][/\ ~dma.reader => header'.tx = 0
          /\ ~dma.writer => header'.rx = 0]_vars

\* C23 witness: both directions were disabled inside a header and enabled
\* again, and the first word since then has been taken as the first word of
\* a header.
C23_Witness ==
    /\ dma.reader /\ dma.writer
    /\ hdr_seen.tx.partial /\ hdr_seen.rx.partial
    /\ hdr_seen.tx.words = 1 /\ hdr_seen.rx.words = 1
    /\ header.tx = 1 /\ header.rx = 1


\* ------------------------------------------------------------------------
\* C24: the polling loop
\* ------------------------------------------------------------------------

\* The reads of MISO so far.
MisoReads == Len(SelectSeq(client.log, LAMBDA e : e.op = "miso"))

\* C24: with an SPI master that ends every transfer it starts and then
\* reports status 1, the polling loop is left; it is left only by a status
\* read that returned 1, whatever other values the register takes, and MISO
\* is read once after it and never again.
C24_PollTerminates ==
    /\ (client.pc = "poll") ~> (client.pc = "done")
    /\ [][(client.pc = "poll" /\ client'.pc # "poll") =>
            /\ client'.pc = "read"
            /\ client'.log[Len(client'.log)] = BusOp("status", 1)]_vars
    /\ [](/\ MisoReads <= 1
          /\ client.pc = "done" => MisoReads = 1
          /\ client.pc # "done" => MisoReads = 0)

\* C24 witness: the loop has been left after status reads that returned 2
\* and 0, and MISO has been read.
C24_Witness ==
    /\ client.pc = "done"
    /\ MisoReads = 1
    /\ \E i, j \in 1..Len(client.log) :
          /\ client.log[i] = BusOp("status", 2)
          /\ client.log[j] = BusOp("status", 0)


\* ------------------------------------------------------------------------
\* C25: non-interference in the CMOS PHY
\* ------------------------------------------------------------------------

\* The source outputs after the rfic cycles whose IDDR data outputs were
\* pads, as a function of pads alone.
SourceOf(pads) ==
    LET n == Len(pads)
    IN  [valid |-> n >= 1,
         ia    |-> IF n >= 2 THEN pads[n - 1][1] ELSE 0,
         qa    |-> IF n >= 2 THEN pads[n - 1][2] ELSE 0,
         ib    |-> 0,
         qb    |-> 0]

\* C25: in every cycle the source outputs of the CMOS PHY (valid, ia, qa,
\* ib, qb) are a function of the rx data pad inputs so far and of nothing
\* else: two runs with the same rx data inputs have the same source outputs
\* in every cycle, whatever control.mode, control.loopback, rx_frame and
\* the sink inputs are in either run.
C25_SourceFromPadsOnly ==
    [valid |-> phy_source.valid, ia |-> phy_source.ia, qa |-> phy_source.qa,
     ib |-> phy_source.ib, qb |-> phy_source.qb] = SourceOf(rx_pads)

\* C25 witness: a sample is at the source while loopback and 1R1T mode are
\* selected and have passed their synchronizers, the framing line is high
\* and the self-test generator drives phy.sink.
C25_Witness ==
    /\ loopback[2] = 1 /\ mode[2] = Mode1R1T
    /\ rx_frame.q = 1
    /\ prbs_tx /\ PhySinkValid
    /\ rfic_n >= 3
    /\ phy_source.ia = 2047


\* ------------------------------------------------------------------------
\* C26: the top four bits of a TX field are dropped
\* ------------------------------------------------------------------------

\* The 16-bit value whose low 12 bits are those of v and whose bits 15..12
\* repeat bit 11.
LoopedBack(v) == IF Low12(v) >= 2048 THEN Low12(v) + 61440 ELSE Low12(v)

\* The fields of a sample in the order of the fields of a word.
SampleFields(smp) == << smp.ia, smp.qa, smp.ib, smp.qb >>

\* C26: of every 16-bit field v at tx_cdc.source the PHY is given v mod
\* 2^12, and a sample looped from phy.sink to phy.source is pushed into
\* rx_cdc as the sign extension of the low 12 bits of v, which is v exactly
\* when v is within -2048..2047 as a signed 16-bit value.
C26_TopBitsDropped ==
    /\ \A i \in 1..Len(tx_handed), k \in 1..4 :
          SampleFields(tx_handed[i])[k] = tx_dout[k] % 4096
    /\ Len(rx_cdc.q) = 1 =>
          \A k \in 1..4 :
              /\ rx_cdc.q[1].data[k] = LoopedBack(tx_dout[k])
              /\ (rx_cdc.q[1].data[k] = tx_dout[k]) <=> IsSignExtended(tx_dout[k])

\* C26 witness: a word has made the trip whose IA field, 0x1234, is out of
\* the 12-bit range and came back as 0x0234, and whose QA field, -2048, came
\* back unchanged.
C26_Witness ==
    /\ Len(rx_cdc.q) = 1
    /\ tx_dout[1] = 4660 /\ tx_dout[2] = 63488
    /\ tx_handed[1].ia = 564
    /\ rx_cdc.q[1].data[1] = 564
    /\ rx_cdc.q[1].data[2] = 63488


\* ------------------------------------------------------------------------
\* C27: host words are consumed during self-test
\* ------------------------------------------------------------------------

\* The IA or IB field of word w has been presented to the PHY.
Presented(w) ==
    \E j \in 1..Len(tx_handed) :
        tx_handed[j].ia = Low12(w[1]) \/ tx_handed[j].ib = Low12(w[3])

\* C27: tx_cdc.source.ready follows phy.sink.ready also while self-test is
\* enabled, so a host word at tx_cdc.source is popped by any ready cycle of
\* the PHY; the IA and IB fields of a word popped while self-test is enabled
\* are not presented to the PHY, then or later: the word is gone from the TX
\* path (the accepted words are the popped ones followed by those in flight).
C27_HostWordsDiscarded ==
    /\ \A r \in BOOLEAN : TxCdcSourceReady(r) = r
    /\ tx_accepted = tx_popped \o TxInFlight
    /\ \A i \in tx_seen.in_test : ~Presented(tx_popped[i])
    /\ \A i \in (1..Len(tx_popped)) \ tx_seen.in_test : Presented(tx_popped[i])

\* C27 witness: the first host word was popped during self-test, self-test
\* was disabled, and the second word was then presented to the PHY.
C27_Witness ==
    /\ tx_seen.in_test = {1}
    /\ Len(tx_popped) = 2
    /\ ~prbs_tx
    /\ tx_handed[Len(tx_handed)].ia = Low12(tx_popped[2][1])


\* ------------------------------------------------------------------------
\* C28: the transceiver reset when the SPI transaction starts
\* ------------------------------------------------------------------------

\* The values the script has written to the config register, in order.
ConfigWrites ==
    SelectSeq(client.log, LAMBDA e : e.op = "config")

\* The script has written the control register: the transaction has started.
SpiStarted == \E i \in 1..Len(client.log) : client.log[i].op = "control"

\* C28: once the script has started the SPI transaction, the last value it
\* wrote to the config register has rst_n (bit 0) set, after an earlier write
\* in which rst_n was clear: the transceiver is out of reset.
C28_OutOfResetAtStart ==
    SpiStarted =>
        LET n == Len(ConfigWrites)
        IN  /\ n >= 2
            /\ ConfigRstN(ConfigWrites[n].val) = 1
            /\ ConfigRstN(spi.config) = 1
            /\ \E j \in 1..(n - 1) : ConfigRstN(ConfigWrites[j].val) = 0

=============================================================================
